---------------------------- MODULE Spec2Model ----------------------------
(***************************************************************************)
(* Career-dataset analysis (src/main.rs): read_dataset loads the rows of a *)
(* CSV file into Individual records, main refuses an empty dataset, and    *)
(* perform_correlation_analysis runs calculate_linear_regression over a    *)
(* fixed catalog of eight variable pairs, labels each correlation and      *)
(* prints descriptive statistics of four fields.                           *)
(*                                                                         *)
(* Numbers.  An f64 is modelled as a binary floating-point number with    *)
(* Precision significant bits in place of 53, or an infinity, or NaN;      *)
(* every operation rounds its exact result to the nearest such number.     *)
(*                                                                         *)
(* Text.  A field's text is a sequence of one-character strings, so that   *)
(* trim(), the label match and parse::<f64>() are computed, not assumed.   *)
(***************************************************************************)
EXTENDS Integers, Sequences, FiniteSets, TLC

(***************************************************************************)
(* Bounds of the model.                                                    *)
(***************************************************************************)
\* rows the input file holds at most
MaxRows == 3
\* significant bits of a number (f64 has 53)
Precision == 9
\* the classification is exercised on the correlations k / GridDen
GridDen == 100

(***************************************************************************)
(* The state of a run                                                      *)
(***************************************************************************)
VARIABLES
    pc,           \* where the program is: open, rows, main, analyses, exit
    input,        \* the rows rdr.records() has yielded so far
    i,            \* the enumerate() index of the next row
    individuals,  \* the Vec<Individual>
    stderr,       \* the diagnostics written by eprintln!
    report,       \* per analysis, the arguments of the println! of lines 144-155
    stats,        \* per subject, the arguments of the println! of lines 173-179
    calls,        \* the invocations of the two engines, with their lengths
    entry,        \* the index of the next entry of the analyses vector
    result,       \* what main returned: none (running), Ok, Err, panic
    probe         \* a correlation and its label (classification on its own)

vars == <<pc, input, i, individuals, stderr, report, stats, calls, entry, result, probe>>

(***************************************************************************)
(* f64 values and arithmetic.  A value is [k, m, e]: k = "fin" is the      *)
(* number m * 2^e, kept with m odd (or m = 0, e = 0) so that equal numbers *)
(* are equal records; k = "inf" is m * infinity (m = 1 or -1); k = "nan"   *)
(* is NaN.  Every operation returns the exact result rounded to the        *)
(* nearest value of Precision significant bits, ties to even, as IEEE 754  *)
(* does with 53 bits.  The exponent is not limited (nothing in the model   *)
(* comes near the f64 range), and the sign of zero is not kept: no divisor *)
(* of the program is a negative zero (they are a length, a sum of squares, *)
(* a square root).                                                         *)
(***************************************************************************)
AbsInt(n) == IF n < 0 THEN -n ELSE n

SignInt(n) == IF n < 0 THEN -1 ELSE IF n > 0 THEN 1 ELSE 0

\* the number of bits of n >= 0
RECURSIVE BitLen(_)
BitLen(n) == IF n = 0 THEN 0 ELSE 1 + BitLen(n \div 2)

\* m * 2^e with the factors 2 of m moved to the exponent
RECURSIVE Fin(_, _)
Fin(m, e) ==
    IF m = 0 THEN [k |-> "fin", m |-> 0, e |-> 0]
    ELSE IF m % 2 = 0 THEN Fin(m \div 2, e + 1)
    ELSE [k |-> "fin", m |-> m, e |-> e]

\* m * 2^e with the last s bits of m rounded away, ties to even
RoundShift(m, e, s) ==
    IF s <= 0 THEN Fin(m, e)
    ELSE LET a    == AbsInt(m)
             q    == a \div (2 ^ s)
             r    == a % (2 ^ s)
             half == 2 ^ (s - 1)
             up   == IF r > half \/ (r = half /\ q % 2 = 1) THEN 1 ELSE 0
         IN  Fin(SignInt(m) * (q + up), e + s)

\* m * 2^e rounded to Precision significant bits, ties to even
Round(m, e) == RoundShift(m, e, BitLen(AbsInt(m)) - Precision)

\* `k as f64`
FromInt(n) == Round(n, 0)

NaN == [k |-> "nan", m |-> 0, e |-> 0]

\* f64::INFINITY (s = 1) and f64::NEG_INFINITY (s = -1); Inf(0) is NaN
Inf(s) == IF s = 0 THEN NaN ELSE [k |-> "inf", m |-> s, e |-> 0]

IsNaN(a) == a.k = "nan"

IsInf(a) == a.k = "inf"

IsFinite(a) == a.k = "fin"

Sign(a) == SignInt(a.m)

Neg(a) == [a EXCEPT !.m = -a.m]

\* the position of the leading bit of a finite a # 0
TopBit(a) == a.e + BitLen(AbsInt(a.m)) - 1

\* a + b; an operand below a quarter of the other's last place does not change it
Add(a, b) ==
    IF IsNaN(a) \/ IsNaN(b) THEN NaN
    ELSE IF IsInf(a) THEN (IF IsInf(b) /\ b.m # a.m THEN NaN ELSE a)
    ELSE IF IsInf(b) THEN b
    ELSE IF a.m = 0 THEN b
    ELSE IF b.m = 0 THEN a
    ELSE IF TopBit(b) + Precision + 2 <= TopBit(a) THEN a
    ELSE IF TopBit(a) + Precision + 2 <= TopBit(b) THEN b
    ELSE LET lo == IF a.e < b.e THEN a.e ELSE b.e
         IN  Round(a.m * 2 ^ (a.e - lo) + b.m * 2 ^ (b.e - lo), lo)

\* a - b
Sub(a, b) == Add(a, Neg(b))

\* a * b
Mul(a, b) ==
    IF IsNaN(a) \/ IsNaN(b) THEN NaN
    ELSE IF IsInf(a) \/ IsInf(b) THEN Inf(Sign(a) * Sign(b))
    ELSE Round(a.m * b.m, a.e + b.e)

\* a / b, the zero divisor being +0; the quotient is taken to Precision + 2 bits
\* and more, the remainder kept as a last (sticky) bit
Div(a, b) ==
    IF IsNaN(a) \/ IsNaN(b) THEN NaN
    ELSE IF IsInf(a) THEN (IF IsInf(b) THEN NaN
                           ELSE Inf(Sign(a) * (IF Sign(b) < 0 THEN -1 ELSE 1)))
    ELSE IF IsInf(b) THEN FromInt(0)
    ELSE IF b.m = 0 THEN Inf(Sign(a))
    ELSE IF a.m = 0 THEN FromInt(0)
    ELSE LET s   == Precision + 2 + BitLen(AbsInt(b.m)) - BitLen(AbsInt(a.m))
             num == AbsInt(a.m) * 2 ^ s
             q   == num \div AbsInt(b.m)
             r   == num % AbsInt(b.m)
         IN  Round(Sign(a) * Sign(b) * (2 * q + (IF r = 0 THEN 0 ELSE 1)),
                   a.e - b.e - s - 1)

\* the largest q in lo..hi with q * q <= n
RECURSIVE SqrtSearch(_, _, _)
SqrtSearch(n, lo, hi) ==
    IF lo = hi THEN lo
    ELSE LET mid == (lo + hi + 1) \div 2
         IN  IF mid * mid <= n THEN SqrtSearch(n, mid, hi)
             ELSE SqrtSearch(n, lo, mid - 1)

\* a.sqrt(): NaN for a negative a; the root is taken to Precision + 1 bits and
\* more, with a sticky bit
Sqrt(a) ==
    IF IsNaN(a) \/ Sign(a) < 0 THEN NaN
    ELSE IF IsInf(a) \/ a.m = 0 THEN a
    ELSE LET t0 == 2 * Precision + 2 - BitLen(a.m)
             t1 == IF t0 < 0 THEN 0 ELSE t0
             t  == IF (a.e - t1) % 2 = 0 THEN t1 ELSE t1 + 1
             n  == a.m * 2 ^ t
             q  == SqrtSearch(n, 0, 2 ^ (Precision + 3))
         IN  Round(2 * q + (IF q * q = n THEN 0 ELSE 1), (a.e - t) \div 2 - 1)

\* x.powi(2)
Powi2(a) == Mul(a, a)

\* a.abs()
Abs(a) == [a EXCEPT !.m = AbsInt(a.m)]

\* a < b: false as soon as one side is NaN
Lt(a, b) == ~IsNaN(a) /\ ~IsNaN(b) /\ a # b /\ Sign(Sub(a, b)) < 0

\* f64::min and f64::max: a NaN operand is ignored
FMin(a, b) == IF IsNaN(a) THEN b ELSE IF IsNaN(b) THEN a ELSE IF Lt(b, a) THEN b ELSE a

FMax(a, b) == IF IsNaN(a) THEN b ELSE IF IsNaN(b) THEN a ELSE IF Lt(a, b) THEN b ELSE a

\* iter().sum::<f64>(): the left fold of + from 0.0
RECURSIVE SumTo(_, _)
SumTo(s, k) == IF k = 0 THEN FromInt(0) ELSE Add(SumTo(s, k - 1), s[k])

Sum(s) == SumTo(s, Len(s))

\* fold(f64::INFINITY, |a, b| a.min(b)) over s[1..k]
RECURSIVE MinTo(_, _)
MinTo(s, k) == IF k = 0 THEN Inf(1) ELSE FMin(MinTo(s, k - 1), s[k])

\* fold(f64::NEG_INFINITY, |a, b| a.max(b)) over s[1..k]
RECURSIVE MaxTo(_, _)
MaxTo(s, k) == IF k = 0 THEN Inf(-1) ELSE FMax(MaxTo(s, k - 1), s[k])

(***************************************************************************)
(* Field text: str::trim and str::parse::<f64>                             *)
(***************************************************************************)
IsSpace(c) == c \in {" ", "\t"}

RECURSIVE TrimStart(_)
TrimStart(t) ==
    IF t # <<>> /\ IsSpace(Head(t)) THEN TrimStart(Tail(t)) ELSE t

RECURSIVE TrimEnd(_)
TrimEnd(t) ==
    IF t # <<>> /\ IsSpace(t[Len(t)]) THEN TrimEnd(SubSeq(t, 1, Len(t) - 1)) ELSE t

\* str::trim
Trim(t) == TrimEnd(TrimStart(t))

Digits == <<"0", "1", "2", "3", "4", "5", "6", "7", "8", "9">>

IsDigit(c) == \E k \in 1..10 : Digits[k] = c

DigitVal(c) == (CHOOSE k \in 1..10 : Digits[k] = c) - 1

\* the value of a run of decimal digits
RECURSIVE DecimalTo(_, _)
DecimalTo(t, k) == IF k = 0 THEN 0 ELSE 10 * DecimalTo(t, k - 1) + DigitVal(t[k])

\* ASCII lower case of the letters the special literals are spelt with
ToLower(c) ==
    CASE c = "I" -> "i" [] c = "N" -> "n" [] c = "F" -> "f" [] c = "A" -> "a"
      [] c = "T" -> "t" [] c = "Y" -> "y" [] OTHER -> c

LowerText(t) == [k \in 1..Len(t) |-> ToLower(t[k])]

ParseOk(v) == [ok |-> TRUE, val |-> v]

ParseErr == [ok |-> FALSE, val |-> NaN]

\* the place of the first "." of t, or Len(t) + 1
RECURSIVE PointAt(_, _)
PointAt(t, j) == IF j > Len(t) \/ t[j] = "." THEN j ELSE PointAt(t, j + 1)

AllDigits(t) == \A j \in 1..Len(t) : IsDigit(t[j])

\* the unsigned part of a float literal: "inf", "infinity", "nan" in any case, or
\* digits with an optional "." among them (the model's texts hold no exponent).
\* The decimal is rounded once, as the quotient of two integers that are exact.
ParseUnsigned(t, s) ==
    LET low   == LowerText(t)
        point == PointAt(t, 1)
        whole == SubSeq(t, 1, point - 1)
        frac  == SubSeq(t, point + 1, Len(t))
        all   == whole \o frac
    IN  IF low = <<"i", "n", "f">> \/ low = <<"i", "n", "f", "i", "n", "i", "t", "y">>
        THEN ParseOk(Inf(s))
        ELSE IF low = <<"n", "a", "n">> THEN ParseOk(NaN)
        ELSE IF all # <<>> /\ AllDigits(all)
             THEN ParseOk(Div(FromInt(s * DecimalTo(all, Len(all))),
                              FromInt(10 ^ Len(frac))))
        ELSE ParseErr

\* str::parse::<f64>: an optional sign, then the unsigned literal; no surrounding
\* space is accepted and the empty text is an error
ParseF64(t) ==
    IF t = <<>> THEN ParseErr
    ELSE IF Head(t) = "-" THEN ParseUnsigned(Tail(t), -1)
    ELSE IF Head(t) = "+" THEN ParseUnsigned(Tail(t), 1)
    ELSE ParseUnsigned(t, 1)

\* FamilyInfluence with a fallthrough default (`_ => Ok(0.0)`) in place of the
\* rejection of line 27; C7 must reject it
FamilyInfluenceDefault(t) ==
    LET label == Trim(t)
    IN  IF label = <<"L", "o", "w">> THEN ParseOk(FromInt(1))
        ELSE IF label = <<"M", "e", "d", "i", "u", "m">> THEN ParseOk(FromInt(2))
        ELSE IF label = <<"H", "i", "g", "h">> THEN ParseOk(FromInt(3))
        ELSE ParseOk(FromInt(0))

\* the ordinal encoding of the Family Influence label, after trim()
FamilyInfluence(t) ==
    LET label == Trim(t)
    IN  IF label = <<"L", "o", "w">> THEN ParseOk(FromInt(1))
        ELSE IF label = <<"M", "e", "d", "i", "u", "m">> THEN ParseOk(FromInt(2))
        ELSE IF label = <<"H", "i", "g", "h">> THEN ParseOk(FromInt(3))
        ELSE ParseErr

(***************************************************************************)
(* calculate_linear_regression                                             *)
(***************************************************************************)
\* var_x after the loop of lines 75-78 has run for i in 0..k
RECURSIVE VarLoop(_, _, _)
VarLoop(x, mean_x, k) ==
    IF k = 0 THEN FromInt(0)
    ELSE Add(VarLoop(x, mean_x, k - 1), Powi2(Sub(x[k], mean_x)))

\* cov_xy after the loop of lines 75-78 has run for i in 0..k
RECURSIVE CovLoop(_, _, _, _, _)
CovLoop(x, y, mean_x, mean_y, k) ==
    IF k = 0 THEN FromInt(0)
    ELSE Add(CovLoop(x, y, mean_x, mean_y, k - 1),
             Mul(Sub(x[k], mean_x), Sub(y[k], mean_y)))

\* the mean of lines 69-70
Mean(v) == Div(Sum(v), FromInt(Len(v)))

\* Slope with cov_xy divided by n as var_x is (a `cov_xy /= n` after line 80);
\* C1 must reject it
SlopeCovOverN(x, y, mean_x, mean_y) ==
    LET n      == FromInt(Len(x))
        var_x  == Div(VarLoop(x, mean_x, Len(x)), n)
        cov_xy == Div(CovLoop(x, y, mean_x, mean_y, Len(x)), n)
    IN  Div(cov_xy, Mul(var_x, Sub(n, FromInt(1))))

\* slope (lines 72-82); only var_x is divided by n
Slope(x, y, mean_x, mean_y) ==
    LET n      == FromInt(Len(x))
        var_x  == Div(VarLoop(x, mean_x, Len(x)), n)
        cov_xy == CovLoop(x, y, mean_x, mean_y, Len(x))
    IN  Div(cov_xy, Mul(var_x, Sub(n, FromInt(1))))

\* intercept (line 83)
Intercept(slope, mean_x, mean_y) == Sub(mean_y, Mul(slope, mean_x))

\* correlation (lines 85-97)
Correlation(x, y, mean_x, mean_y) ==
    LET r_numerator == CovLoop(x, y, mean_x, mean_y, Len(x))
        r_denomx    == VarLoop(x, mean_x, Len(x))
        r_denomy    == VarLoop(y, mean_y, Len(y))
    IN  Div(r_numerator, Sqrt(Mul(r_denomx, r_denomy)))

\* the tuple of line 100, r_squared being correlation.powi(2) (line 98)
Tuple(slope, intercept, correlation) ==
    [slope |-> slope, intercept |-> intercept,
     correlation |-> correlation, r_squared |-> Powi2(correlation)]

\* the body of calculate_linear_regression once the two means are known
RegressionFrom(x, y, mean_x, mean_y, slope) ==
    Tuple(slope, Intercept(slope, mean_x, mean_y), Correlation(x, y, mean_x, mean_y))

RegressionAt(x, y, mean_x, mean_y) ==
    RegressionFrom(x, y, mean_x, mean_y, Slope(x, y, mean_x, mean_y))

\* the tuple calculate_linear_regression returns; callers pass equal lengths
\* (the assert_eq! of line 66 is checked where it is called)
calculate_linear_regression(x, y) == RegressionAt(x, y, Mean(x), Mean(y))

(***************************************************************************)
(* perform_correlation_analysis: the catalog, the strength label, the      *)
(* descriptive statistics                                                  *)
(***************************************************************************)
\* the analyses vector of lines 104-136: title, field of x, field of y
Analyses ==
    << <<"Age vs Years of Experience", "age", "years_of_experience">>,
       <<"Age vs Job Satisfaction", "age", "job_satisfaction">>,
       <<"Age vs Professional Network Size", "age", "professional_network_size">>,
       <<"Years of Experience vs Professional Network Size",
         "years_of_experience", "professional_network_size">>,
       <<"Professional Network Size vs Job Satisfaction",
         "professional_network_size", "job_satisfaction">>,
       <<"Family Influence vs Salary", "family_influence", "salary">>,
       <<"Age vs Salary", "age", "salary">>,
       <<"Years of Experience vs Salary", "years_of_experience", "salary">> >>

\* individuals.iter().map(|ind| ind.<field>).collect()
Column(inds, field) == [j \in 1..Len(inds) |-> inds[j][field]]

\* a <= b: false as soon as one side is NaN
Le(a, b) == Lt(a, b) \/ (~IsNaN(a) /\ a = b)

\* StrengthLabel with <= for < in both comparisons; C8 must reject it
StrengthLabelInclusive(correlation) ==
    IF Le(Abs(correlation), Div(FromInt(3), FromInt(10))) THEN "Weak correlation"
    ELSE IF Le(Abs(correlation), Div(FromInt(7), FromInt(10))) THEN "Moderate correlation"
    ELSE "Strong correlation"

\* StrengthLabel with the bands tested from the top (`if abs >= 0.7 .. else if
\* abs >= 0.3 .. else weak`), which sends NaN to the last branch; C10 must reject it
StrengthLabelFromTop(correlation) ==
    IF Le(Div(FromInt(7), FromInt(10)), Abs(correlation)) THEN "Strong correlation"
    ELSE IF Le(Div(FromInt(3), FromInt(10)), Abs(correlation)) THEN "Moderate correlation"
    ELSE "Weak correlation"

\* the if / else if / else of lines 149-155; the literals 0.3 and 0.7 are the f64
\* nearest to 3/10 and 7/10
StrengthLabel(correlation) ==
    IF Lt(Abs(correlation), Div(FromInt(3), FromInt(10))) THEN "Weak correlation"
    ELSE IF Lt(Abs(correlation), Div(FromInt(7), FromInt(10))) THEN "Moderate correlation"
    ELSE "Strong correlation"

\* the closure calculate_descriptive_stats of lines 159-166
calculate_descriptive_stats(data) ==
    [mean |-> Div(Sum(data), FromInt(Len(data))),
     min  |-> MinTo(data, Len(data)),
     max  |-> MaxTo(data, Len(data))]

\* the four subjects of lines 168-179, in printing order
StatSubjects ==
    << <<"Age", "age">>,
       <<"Professional Network Size", "professional_network_size">>,
       <<"Years of Experience", "years_of_experience">>,
       <<"Job Satisfaction", "job_satisfaction">> >>

(***************************************************************************)
(* The input file.  A row is what rdr.records() yields: an Err of the CSV  *)
(* reader (err = TRUE), or a record whose six fields read by read_dataset  *)
(* are kept as text (record[2], [4], [7], [19], [14] and [10]).  The       *)
(* reader is not flexible, so every record it delivers has the header's    *)
(* number of fields, taken to be the twenty and more of the dataset.       *)
(***************************************************************************)
Fields ==
    <<"age", "years_of_experience", "job_satisfaction",
      "professional_network_size", "salary">>

Row(age, exp, sat, net, fam, sal) ==
    [err |-> FALSE, age |-> age, years_of_experience |-> exp,
     job_satisfaction |-> sat, professional_network_size |-> net,
     family_influence |-> fam, salary |-> sal]

ErrRow == [Row(<<>>, <<>>, <<>>, <<>>, <<>>, <<>>) EXCEPT !.err = TRUE]

Low == <<"L", "o", "w">>

Medium == <<"M", "e", "d", "i", "u", "m">>

High == <<"H", "i", "g", "h">>

RowA == Row(<<"1">>, <<"1">>, <<"0", ".", "7">>, <<"1">>, Low, <<"3">>)

RowB == Row(<<"2">>, <<"3">>, <<"0", ".", "7">>, <<"0">>, Medium, <<"1">>)

RowC == Row(<<" ", "3", " ">>, <<"2">>, <<".", "7">>, <<"-", "1">>, <<" ", "H", "i", "g", "h", "\t">>, <<"2">>)

RowD == Row(<<"2">>, <<"1">>, <<"2">>, <<"1">>, <<" ", "M", "e", "d", "i", "u", "m">>, <<"+", "3">>)

ValidRows == {RowA, RowB, RowC, RowD}

\* rows the loader must refuse: the label is not one of the three, or a field is
\* not a number
BadRows ==
    { [RowA EXCEPT !.family_influence = <<"h", "i", "g", "h">>],
      [RowB EXCEPT !.age = <<"x">>],
      [RowC EXCEPT !.salary = <<>>] }

\* rows whose text parse::<f64> accepts as a non-finite number
NonFiniteRows ==
    { [RowB EXCEPT !.age = <<"N", "a", "N">>],
      [RowC EXCEPT !.salary = <<"-", "i", "n", "f">>] }

Menu == ValidRows \cup BadRows \cup NonFiniteRows

(***************************************************************************)
(* The program                                                             *)
(***************************************************************************)
Init ==
    /\ pc = "open"
    /\ input = <<>>
    /\ i = 0
    /\ individuals = <<>>
    /\ stderr = <<>>
    /\ report = <<>>
    /\ stats = <<>>
    /\ calls = <<>>
    /\ entry = 1
    /\ result = "none"
    /\ probe = <<>>

\* csv::Reader::from_path fails: read_dataset and main return the error
OpenFails ==
    /\ pc = "open"
    /\ pc' = "exit"
    /\ result' = "Err"
    /\ UNCHANGED <<input, i, individuals, stderr, report, stats, calls, entry, probe>>

OpenOk ==
    /\ pc = "open"
    /\ pc' = "rows"
    /\ UNCHANGED <<input, i, individuals, stderr, report, stats, calls, entry, result, probe>>

\* the six parses of lines 23-37 on a delivered record
ParseRow(row) ==
    [age |-> ParseF64(Trim(row.age)),
     years_of_experience |-> ParseF64(Trim(row.years_of_experience)),
     job_satisfaction |-> ParseF64(Trim(row.job_satisfaction)),
     professional_network_size |-> ParseF64(Trim(row.professional_network_size)),
     family_influence |-> FamilyInfluence(row.family_influence),
     salary |-> ParseF64(Trim(row.salary))]

\* the match of lines 31-46: all six are Ok
Accepted(row) ==
    LET p == ParseRow(row)
    IN  /\ p.age.ok /\ p.years_of_experience.ok /\ p.job_satisfaction.ok
        /\ p.professional_network_size.ok /\ p.family_influence.ok /\ p.salary.ok

\* Individual with id counting the records pushed so far (id: individuals.len());
\* C9 must reject it
IndividualCountingPushes(row, idx) ==
    LET p == ParseRow(row)
    IN  [id |-> Len(individuals), age |-> p.age.val,
         years_of_experience |-> p.years_of_experience.val,
         job_satisfaction |-> p.job_satisfaction.val,
         professional_network_size |-> p.professional_network_size.val,
         family_influence |-> p.family_influence.val,
         salary |-> p.salary.val]

\* the Individual of lines 47-55, for the row of index idx
Individual(row, idx) ==
    LET p == ParseRow(row)
    IN  [id |-> idx, age |-> p.age.val,
         years_of_experience |-> p.years_of_experience.val,
         job_satisfaction |-> p.job_satisfaction.val,
         professional_network_size |-> p.professional_network_size.val,
         family_influence |-> p.family_influence.val,
         salary |-> p.salary.val]

Warning(idx) == [msg |-> "Warning: Could not parse data for record", arg |-> idx]

NoIndividuals == [msg |-> "No individuals loaded from the dataset!", arg |-> -1]

\* one iteration of the loop of lines 19-61 on a delivered record
ReadRow(row) ==
    /\ pc = "rows"
    /\ i < MaxRows
    /\ input' = Append(input, row)
    /\ i' = i + 1
    /\ IF Accepted(row)
       THEN /\ individuals' = Append(individuals, Individual(row, i))
            /\ UNCHANGED stderr
       ELSE /\ stderr' = Append(stderr, Warning(i))
            /\ UNCHANGED individuals
    /\ UNCHANGED <<pc, report, stats, calls, entry, result, probe>>

\* the reader yields an Err: `result?` of line 20 returns it, the Vec is dropped,
\* and main returns the error (line 186)
ReadError ==
    /\ pc = "rows"
    /\ i < MaxRows
    /\ input' = Append(input, ErrRow)
    /\ individuals' = <<>>
    /\ pc' = "exit"
    /\ result' = "Err"
    /\ UNCHANGED <<i, stderr, report, stats, calls, entry, probe>>

\* the iterator is exhausted: read_dataset returns Ok(individuals) (line 62)
EndOfFile ==
    /\ pc = "rows"
    /\ pc' = "main"
    /\ UNCHANGED <<input, i, individuals, stderr, report, stats, calls, entry, result, probe>>

\* main, lines 188-191
ExitEmpty ==
    /\ pc = "main"
    /\ individuals = <<>>
    /\ stderr' = Append(stderr, NoIndividuals)
    /\ pc' = "exit"
    /\ result' = "Ok"
    /\ UNCHANGED <<input, i, individuals, report, stats, calls, entry, probe>>

\* BeginAnalysis without the is_empty test of line 188; C3 must reject it
BeginAnalysisUnguarded ==
    /\ pc = "main"
    /\ pc' = "analyses"
    /\ entry' = 1
    /\ UNCHANGED <<input, i, individuals, stderr, report, stats, calls, result, probe>>

\* main, line 193: perform_correlation_analysis is entered
BeginAnalysis ==
    /\ pc = "main"
    /\ individuals # <<>>
    /\ pc' = "analyses"
    /\ entry' = 1
    /\ UNCHANGED <<input, i, individuals, stderr, report, stats, calls, result, probe>>

Call(fn, x, y) == [fn |-> fn, nx |-> Len(x), ny |-> Len(y)]

\* one iteration of the loop of lines 140-156; r is the tuple line 141 binds
AnalyseEntry ==
    /\ pc = "analyses"
    /\ entry <= Len(Analyses)
    /\ LET title == Analyses[entry][1]
           x     == Column(individuals, Analyses[entry][2])
           y     == Column(individuals, Analyses[entry][3])
       IN  \E r \in {calculate_linear_regression(x, y)} :
           /\ calls' = Append(calls, Call("calculate_linear_regression", x, y))
           /\ IF Len(x) # Len(y)
              THEN /\ pc' = "exit"
                   /\ result' = "panic"
                   /\ UNCHANGED <<report, entry>>
              ELSE /\ report' = Append(report,
                          [title |-> title, correlation |-> r.correlation,
                           slope |-> r.slope, intercept |-> r.intercept,
                           r_squared |-> r.r_squared,
                           label |-> StrengthLabel(r.correlation)])
                   /\ entry' = entry + 1
                   /\ UNCHANGED <<pc, result>>
    /\ UNCHANGED <<input, i, individuals, stderr, stats, probe>>

StatLine(subject) ==
    LET data == Column(individuals, subject[2])
        st   == calculate_descriptive_stats(data)
    IN  [name |-> subject[1], mean |-> st.mean, min |-> st.min, max |-> st.max]

\* lines 158-181 and 195: the four statistics are computed and printed, Ok(())
DescriptiveStats ==
    /\ pc = "analyses"
    /\ entry > Len(Analyses)
    /\ stats' = [j \in 1..Len(StatSubjects) |-> StatLine(StatSubjects[j])]
    /\ calls' = calls \o [j \in 1..Len(StatSubjects) |->
                    Call("calculate_descriptive_stats",
                         Column(individuals, StatSubjects[j][2]),
                         Column(individuals, StatSubjects[j][2]))]
    /\ pc' = "exit"
    /\ result' = "Ok"
    /\ UNCHANGED <<input, i, individuals, stderr, report, entry, probe>>

Next ==
    \/ OpenFails
    \/ OpenOk
    \/ \E row \in Menu : ReadRow(row)
    \/ ReadError
    \/ EndOfFile
    \/ ExitEmpty
    \/ BeginAnalysis
    \/ AnalyseEntry
    \/ DescriptiveStats

Spec == Init /\ [][Next]_vars

(***************************************************************************)
(* The classification of lines 149-155 on its own: it is applied to the    *)
(* correlations num / GridDen, num in -GridDen..GridDen, and to the three  *)
(* non-finite values.                                                      *)
(***************************************************************************)
\* the f64 num / den as the value of `correlation`
Ratio(num, den) == Div(FromInt(num), FromInt(den))

\* the label printed for the finite correlation num / GridDen
ClassifyFinite(num) ==
    /\ pc = "open"
    /\ probe = <<>>
    /\ probe' = << [kind |-> "finite", num |-> num, den |-> GridDen,
                    correlation |-> Ratio(num, GridDen),
                    label |-> StrengthLabel(Ratio(num, GridDen))] >>
    /\ UNCHANGED <<pc, input, i, individuals, stderr, report, stats, calls, entry, result>>

\* the label printed for NaN (s = 0), +inf (s = 1) and -inf (s = -1)
ClassifyNonFinite(s) ==
    /\ pc = "open"
    /\ probe = <<>>
    /\ probe' = << [kind |-> "nonfinite", num |-> s, den |-> 0,
                    correlation |-> Inf(s),
                    label |-> StrengthLabel(Inf(s))] >>
    /\ UNCHANGED <<pc, input, i, individuals, stderr, report, stats, calls, entry, result>>

NextClassify ==
    \/ \E num \in -GridDen..GridDen : ClassifyFinite(num)
    \/ \E s \in {-1, 0, 1} : ClassifyNonFinite(s)

SpecClassify == Init /\ [][NextClassify]_vars

(***************************************************************************)
(* Properties.  The quantities the specification speaks of are defined     *)
(* here from its text, apart from the program's own operators.             *)
(***************************************************************************)
Regression == "calculate_linear_regression"

\* read_dataset has returned Ok to main
Loaded == pc \in {"main", "analyses"} \/ (pc = "exit" /\ result \in {"Ok", "panic"})

\* read_dataset is reading the rows
Loading == pc = "rows"

\* read_dataset has just returned Ok to main
JustLoaded == pc = "main"

MeanOf(s) == Div(Sum(s), FromInt(Len(s)))

\* the deviations s[j] - m
Centered(s, m) == [j \in 1..Len(s) |-> Sub(s[j], m)]

\* the centered deviations s[j] - mean
Deviations(s) == Centered(s, MeanOf(s))

Products(dx, dy) == [j \in 1..Len(dx) |-> Mul(dx[j], dy[j])]

\* sum over j of (x[j] - mean_x) * (y[j] - mean_y)
SumOfProducts(x, y) == Sum(Products(Deviations(x), Deviations(y)))

\* (1/n) * sum of squared deviations
PopulationVariance(x) == Div(SumOfProducts(x, x), FromInt(Len(x)))

\* (1/n) * sum of products of deviations
PopulationCovariance(x, y) == Div(SumOfProducts(x, y), FromInt(Len(x)))

IsConstant(s) == \A a, b \in 1..Len(s) : s[a] = s[b]

\* the samples of the j-th catalog entry
SampleX(j) == Column(individuals, Analyses[j][2])

SampleY(j) == Column(individuals, Analyses[j][3])

\* the analysis printed last; every report entry is the last one in the state that
\* follows its iteration
JustPrinted == pc = "analyses" /\ report # <<>>

NonFinite(c) == ~IsFinite(c)

\* a row as the specification accepts it: five numbers and one of the three labels
IsNumber(t) == ParseF64(Trim(t)).ok

SpecAccepts(row) ==
    /\ ~row.err
    /\ \A f \in 1..Len(Fields) : IsNumber(row[Fields[f]])
    /\ Trim(row.family_influence) \in {Low, Medium, High}

\* the places in the input, counted from 1, of the rows the specification accepts
AcceptedRows ==
    SelectSeq([j \in 1..Len(input) |-> j], LAMBDA j : SpecAccepts(input[j]))

LabelCode(label) ==
    IF label = Low THEN 1 ELSE IF label = Medium THEN 2 ELSE 3

Warnings == SelectSeq(stderr, LAMBDA d : d.arg >= 0)

----------------------------------------------------------------------------
\* C1 (as stated): for n >= 2 and X not constant the slope is cov_xy / (var_x * (n - 1))
\* with var_x and cov_xy both normalised by n, and the intercept is
\* mean_y - slope * mean_x.
C1_SlopeFromPopulationCovariance ==
    JustPrinted =>
        LET x == SampleX(Len(report))
            y == SampleY(Len(report))
            e == report[Len(report)]
        IN  (Len(x) >= 2 /\ ~IsConstant(x)) =>
                /\ e.slope = Div(PopulationCovariance(x, y),
                                 Mul(PopulationVariance(x), FromInt(Len(x) - 1)))
                /\ e.intercept = Sub(MeanOf(y), Mul(e.slope, MeanOf(x)))

\* C1 (amended): for n >= 2 and X not constant the slope is S_xy / (var_x * (n - 1)),
\* where var_x is normalised by n and S_xy is the sum of products of deviations, not
\* divided by n; the intercept is mean_y - slope * mean_x.
C1_SlopeFromSumOfProducts ==
    JustPrinted =>
        LET x == SampleX(Len(report))
            y == SampleY(Len(report))
            e == report[Len(report)]
        IN  (Len(x) >= 2 /\ ~IsConstant(x)) =>
                /\ e.slope = Div(SumOfProducts(x, y),
                                 Mul(PopulationVariance(x), FromInt(Len(x) - 1)))
                /\ e.intercept = Sub(MeanOf(y), Mul(e.slope, MeanOf(x)))

\* three records, X not constant, a finite slope that is not zero
C1_Witness ==
    /\ JustPrinted
    /\ Len(individuals) = 3
    /\ ~IsConstant(SampleX(Len(report)))
    /\ IsFinite(report[Len(report)].slope)
    /\ report[Len(report)].slope.m # 0

\* C2: every invocation of the regression engine receives two sequences of the same
\* length n >= 2.
C2_EngineGetsAtLeastTwo ==
    \A c \in 1..Len(calls) :
        calls[c].fn = Regression => (calls[c].nx = calls[c].ny /\ calls[c].nx >= 2)

\* C3: when the loaded collection is empty no engine is invoked, nothing is
\* reported, the analysis is not entered, and the run ends Ok after the
\* "No individuals loaded" diagnostic.
C3_EmptyDatasetSkipsAnalysis ==
    (Loaded /\ individuals = <<>>) =>
        /\ calls = <<>>
        /\ report = <<>>
        /\ stats = <<>>
        /\ pc # "analyses"
        /\ pc = "main" => ENABLED ExitEmpty
        /\ pc = "exit" =>
               /\ result = "Ok"
               /\ stderr # <<>>
               /\ stderr[Len(stderr)] = NoIndividuals

\* a file of refused rows only has been loaded and the run has ended
C3_Witness ==
    /\ pc = "exit"
    /\ result = "Ok"
    /\ individuals = <<>>
    /\ input # <<>>
    /\ stderr[Len(stderr)] = NoIndividuals

\* C4: a bad row, be it refused by the parser or not delivered by the reader, never
\* aborts the load: the load goes on and holds the records of the valid rows.
C4_BadRowNeverAborts ==
    (\E j \in 1..Len(input) : ~SpecAccepts(input[j])) =>
        /\ result # "Err"
        /\ Len(individuals) = Len(SelectSeq(input, SpecAccepts))

\* C5: after a successful load every numeric field of every record is finite.
C5_LoadedFieldsFinite ==
    Loaded =>
        \A m \in 1..Len(individuals) :
            /\ IsFinite(individuals[m].family_influence)
            /\ \A f \in 1..Len(Fields) : IsFinite(individuals[m][Fields[f]])

\* C6: with n >= 2 and X or Y constant the correlation of the entry is non-finite
\* and is reported as it is; no entry is left out (each entry holds the title of
\* its place in the catalog and the value the engine returns for its samples) and
\* a finished run has reported all eight.
C6_ConstantSampleReported ==
    /\ \A j \in 1..Len(report) :
          /\ report[j].title = Analyses[j][1]
          /\ (Len(individuals) >= 2 /\ (IsConstant(SampleX(j)) \/ IsConstant(SampleY(j))))
                => NonFinite(report[j].correlation)
    /\ JustPrinted =>
          report[Len(report)].correlation =
              calculate_linear_regression(SampleX(Len(report)),
                                          SampleY(Len(report))).correlation
    /\ (pc = "exit" /\ result = "Ok" /\ individuals # <<>>) =>
          Len(report) = Len(Analyses)

\* C7: a delivered row is accepted exactly when its five numeric fields parse and
\* its trimmed label is Low, Medium or High; while the rows are read and when the
\* load returns, the records are those rows in order, with family_influence 1, 2
\* or 3, and every other row has been refused with a warning.
C7_AcceptedIffParsed ==
    (Loading \/ JustLoaded) =>
        \A accepted \in {AcceptedRows} :
            /\ Len(individuals) = Len(accepted)
            /\ Len(Warnings) = Len(input) - Len(accepted)
            /\ \A m \in 1..Len(accepted) :
                  /\ individuals[m].family_influence =
                         FromInt(LabelCode(Trim(input[accepted[m]].family_influence)))
                  /\ \A f \in 1..Len(Fields) :
                         individuals[m][Fields[f]] =
                             ParseF64(Trim(input[accepted[m]][Fields[f]])).val

\* a "high" row has been refused and a " High\t" row accepted with code 3
C7_Witness ==
    /\ JustLoaded
    /\ \E j \in 1..Len(input) : input[j].family_influence = <<"h", "i", "g", "h">>
    /\ \E j \in 1..Len(input) :
          /\ SpecAccepts(input[j])
          /\ input[j].family_influence = <<" ", "H", "i", "g", "h", "\t">>
    /\ Len(individuals) = 1
    /\ individuals[1].family_influence = FromInt(3)
    /\ Len(Warnings) = Len(input) - 1

\* C8: the label follows from the magnitude alone: weak below 0.30, moderate from
\* 0.30 (included) to 0.70, strong from 0.70 (included); one label per entry.
C8_LabelBands ==
    \A p \in 1..Len(probe) :
        LET e   == probe[p]
            mag == AbsInt(e.num)
        IN  /\ e.label \in {"Weak correlation", "Moderate correlation", "Strong correlation"}
            /\ e.kind = "finite" =>
                  /\ (10 * mag < 3 * e.den) => e.label = "Weak correlation"
                  /\ (10 * mag >= 3 * e.den /\ 10 * mag < 7 * e.den)
                        => e.label = "Moderate correlation"
                  /\ (10 * mag >= 7 * e.den) => e.label = "Strong correlation"

\* the correlation -0.30 exactly has been labelled moderate
C8_Witness ==
    /\ probe # <<>>
    /\ probe[1].kind = "finite"
    /\ 10 * probe[1].num = -3 * probe[1].den
    /\ probe[1].label = "Moderate correlation"

\* C9 (as stated): the k-th record, counting from 0, has id = k.
C9_IdsContiguous ==
    (pc = "rows" \/ Loaded) =>
        \A m \in 1..Len(individuals) : individuals[m].id = m - 1

\* C9 (amended): the id of a record is the index, counting from 0, of its row among
\* all the rows read, refused ones included: the k-th record has the index of the
\* k-th accepted row, so the ids increase and skip the refused rows.
C9_IdIsRowIndex ==
    (Loading \/ JustLoaded) =>
        \A accepted \in {AcceptedRows} :
            \A m \in 1..Len(individuals) :
                /\ m <= Len(accepted)
                /\ individuals[m].id = accepted[m] - 1

\* a record follows a refused row: its id is ahead of its place
C9_Witness ==
    /\ JustLoaded
    /\ \E m \in 1..Len(individuals) : individuals[m].id > m - 1

\* C10: a NaN correlation is labelled strong, and no non-finite correlation is
\* labelled weak or moderate.
C10_NaNIsStrong ==
    \A j \in 1..Len(report) :
        /\ IsNaN(report[j].correlation) => report[j].label = "Strong correlation"
        /\ NonFinite(report[j].correlation) =>
              report[j].label \notin {"Weak correlation", "Moderate correlation"}

\* X is constant over two records or more, the correlation is NaN and the label
\* printed is strong
C10_Witness ==
    /\ JustPrinted
    /\ Len(individuals) >= 2
    /\ IsConstant(SampleX(Len(report)))
    /\ IsNaN(report[Len(report)].correlation)
    /\ report[Len(report)].label = "Strong correlation"

=============================================================================
